---- MODULE Spec2Model ----
(***************************************************************************)
(* zenwave: the request-builder -> lazy execution pipeline of an HTTP      *)
(* client (src/src/lib.rs) with its RwLock-guarded cookie jar.             *)
(*                                                                         *)
(* Text is modelled as sequences of one-character strings, so that cookie  *)
(* parsing (Cookie::parse), percent-encoding and display (Cookie::encoded) *)
(* and joining (Vec::join) are computed, not assumed.                      *)
(***************************************************************************)
EXTENDS Integers, Sequences, FiniteSets, TLC

(* ------------------------------ bounds --------------------------------- *)
\* pipelines that may coexist against one client
NumPipes == 2
\* builders created over one behaviour
MaxSends == 2

Pipes == 1..NumPipes

(* ------------------------------ text ----------------------------------- *)
\* a byte that is no valid UTF-8 (String::from_utf8 rejects it)
BadByte == "0xFF"
\* a control character (HeaderValue::try_from rejects it)
Ctl == "\n"

RECURSIVE Concat(_)
Concat(ss) == IF ss = <<>> THEN <<>> ELSE Head(ss) \o Concat(Tail(ss))

\* position of the first ch in s, or 0
RECURSIVE IndexFrom(_, _, _)
IndexFrom(s, ch, i) ==
    IF i > Len(s) THEN 0
    ELSE IF s[i] = ch THEN i ELSE IndexFrom(s, ch, i + 1)
IndexOf(s, ch) == IndexFrom(s, ch, 1)

\* str::split(ch)
RECURSIVE Split(_, _)
Split(s, ch) ==
    LET i == IndexOf(s, ch)
    IN  IF i = 0 THEN <<s>>
        ELSE <<SubSeq(s, 1, i - 1)>> \o Split(SubSeq(s, i + 1, Len(s)), ch)

\* str::trim
RECURSIVE TrimLeft(_)
TrimLeft(s) == IF s # <<>> /\ Head(s) = " " THEN TrimLeft(Tail(s)) ELSE s
RECURSIVE TrimRight(_)
TrimRight(s) ==
    IF s # <<>> /\ s[Len(s)] = " " THEN TrimRight(SubSeq(s, 1, Len(s) - 1)) ELSE s
Trim(s) == TrimRight(TrimLeft(s))

\* str::to_lowercase, on the letters of the alphabet in use
LowerChar(ch) == IF ch = "P" THEN "p" ELSE ch
Lower(s) == [i \in 1..Len(s) |-> LowerChar(s[i])]

\* [String]::join(sep)
RECURSIVE Join(_, _)
Join(vec, sep) ==
    IF vec = <<>> THEN <<>>
    ELSE IF Len(vec) = 1 THEN vec[1]
    ELSE vec[1] \o sep \o Join(Tail(vec), sep)

(* ------------------------------ cookies -------------------------------- *)
\* a cookie: name, value, and the Path attribute as an option (<<>> or <<p>>)
MkCookie(n, v, p) == [name |-> n, value |-> v, path |-> p]

\* percent-encoding of a cookie name or value (cookie crate, encoded())
PctChar(ch) ==
    CASE ch = " " -> <<"%", "2", "0">>
      [] ch = ";" -> <<"%", "3", "B">>
      [] ch = "=" -> <<"%", "3", "D">>
      [] ch = "%" -> <<"%", "2", "5">>
      [] ch = Ctl -> <<"%", "0", "A">>
      [] OTHER -> <<ch>>
PctEncode(s) == Concat([i \in 1..Len(s) |-> PctChar(s[i])])

\* `name=value` alone, percent-encoded
NameValue(c) == PctEncode(c.name) \o <<"=">> \o PctEncode(c.value)

\* the attributes, as Display writes them after the pair
Parameters(c) ==
    IF c.path = <<>> THEN <<>>
    ELSE <<";", " ", "P", "a", "t", "h", "=">> \o c.path[1]

\* the pair written without percent-encoding (Cookie::to_string)
encoded_unescaped(c) == c.name \o <<"=">> \o c.value \o Parameters(c)

\* Cookie::encoded().to_string(): the percent-encoded pair, then the attributes
encoded(c) == NameValue(c) \o Parameters(c)

\* the Path attribute among the attributes of a Set-Cookie string; a later
\* one overrides an earlier one, unknown attributes are ignored
RECURSIVE PathAttr(_, _)
PathAttr(attrs, acc) ==
    IF attrs = <<>> THEN acc
    ELSE LET a == Head(attrs)
             i == IndexOf(a, "=")
             key == IF i = 0 THEN Trim(a) ELSE Trim(SubSeq(a, 1, i - 1))
         IN  IF i # 0 /\ Lower(key) = <<"p", "a", "t", "h">>
             THEN PathAttr(Tail(attrs), <<Trim(SubSeq(a, i + 1, Len(a)))>>)
             ELSE PathAttr(Tail(attrs), acc)

NoCookie == MkCookie(<<>>, <<>>, <<>>)

\* Cookie::parse(s): Ok(cookie), or Err(MissingPair | EmptyName)
parse(s) ==
    LET parts == Split(s, ";")
        pair == Head(parts)
        i == IndexOf(pair, "=")
        name == Trim(SubSeq(pair, 1, i - 1))
        value == Trim(SubSeq(pair, i + 1, Len(pair)))
    IN  IF i = 0 THEN [ok |-> FALSE, err |-> "MissingPair", cookie |-> NoCookie]
        ELSE IF name = <<>> THEN [ok |-> FALSE, err |-> "EmptyName", cookie |-> NoCookie]
        ELSE [ok |-> TRUE, err |-> "", cookie |-> MkCookie(name, value, PathAttr(Tail(parts), <<>>))]

\* String::from_utf8(bytes).is_ok()
from_utf8(bytes) == \A i \in 1..Len(bytes) : bytes[i] # BadByte

\* HeaderValue::try_from(String).is_ok(): no control character in the text
try_from(text) == \A i \in 1..Len(text) : text[i] # Ctl

\* an insertion that appends, whatever the jar holds
add_original_append(jar, c) == jar \cup {c}

\* an insertion that keeps the entry the jar already holds under the name
add_original_keep(jar, c) ==
    IF \E d \in jar : d.name = c.name THEN jar ELSE jar \cup {c}

\* CookieJar::add_original: the jar is keyed by the cookie's name; an entry
\* of the same name is replaced
add_original(jar, c) == {d \in jar : d.name # c.name} \cup {c}

\* the storage identity the data model of the specification gives a cookie:
\* its name and path (no domain attribute occurs in the model); a cookie
\* without a Path attribute counts under the root path, so that only cookies
\* with explicitly different paths count as different
Identity(c) == <<c.name, IF c.path = <<>> THEN <<"/">> ELSE c.path[1]>>

\* Request::insert_header: the new value replaces every value of that name
insert_header(values, v) == <<v>>

\* CookieJar::iter() walks a hash set: every order of the entries can occur
Orders(jar) ==
    {o \in [1..Cardinality(jar) -> jar] : \A i, j \in DOMAIN o : o[i] = o[j] => i = j}

\* lines 134-135: the Vec<String> collected from one walk of the jar
EncodedVec(o) == [i \in 1..Len(o) |-> encoded(o[i])]

\* line 138: vec.join(";")
CookieHeader(o) == Join(EncodedVec(o), <<";">>)

(* ------------------------------ inputs --------------------------------- *)
\* Set-Cookie header values a backend delivers (bytes)
H_id1 == <<"i", "d", "=", "1">>
H_id2 == <<"i", "d", "=", "2">>
H_id42 == <<"i", "d", "=", "4", "2", ";", " ", "P", "a", "t", "h", "=", "/">>
H_id5a == <<"i", "d", "=", "5", ";", "P", "a", "t", "h", "=", "/", "a">>
H_nopair == <<"i", "d">>
H_notext == <<"i", "d", "=", BadByte>>

\* cookies a caller hands to Client::cookie
K_sid == MkCookie(<<"s">>, <<"a", " ", "b">>, <<>>)
K_id == MkCookie(<<"i", "d">>, <<"7">>, <<>>)
K_ctl == MkCookie(<<"t">>, <<"1">>, << <<"/", Ctl>> >>)
CallerCookies == {K_sid, K_id, K_ctl}

\* Cookie header values a caller may have put on the request before sending
CallerHeaders == {<<>>, << <<"x", "=", "1">> >>, << <<"x", "=", "1">>, <<"y", "=", "2">> >>}

\* URI-like inputs to Client::method: one that converts, one that does not
Uris == {"http://example.com", "not a uri"}
try_into(uri) == uri = "http://example.com"

\* transport errors of the backend
TransportErrors == {"E1", "E2"}

\* the Set-Cookie headers of the responses a backend delivers: none, one,
\* the same name twice, the same name under two paths, a header that fails
\* after one that parsed, a header that is no text
Responses ==
    {<<>>, <<H_id1>>, <<H_id2>>, <<H_id42>>, <<H_id1, H_id2>>, <<H_id42, H_id1>>,
     <<H_id42, H_id5a>>, <<H_id2, H_nopair>>, <<H_notext>>}

\* results of ClientBackend::call_endpoint
BackendResults ==
    {[ok |-> TRUE, set_cookie |-> h, err |-> ""] : h \in Responses}
    \cup {[ok |-> FALSE, set_cookie |-> <<>>, err |-> e] : e \in TransportErrors}
NoResult == [ok |-> FALSE, set_cookie |-> <<>>, err |-> ""]

(* ------------------------------ state ---------------------------------- *)
VARIABLES
    cookies,        \* Client.cookies: the jar inside the RwLock
    poisoned,       \* the RwLock's poison flag
    readers,        \* pipelines holding a read guard
    writer,         \* the pipeline holding the write guard, or 0
    cookie_store,   \* Client.cookie_store
    alive,          \* the client has not been dropped
    pc,             \* where each builder / pipeline stands
    request,        \* the Cookie header values of each pipeline's request
    result,         \* what call_endpoint returned to each pipeline
    idx,            \* position of the merge loop in the Set-Cookie headers
    outcome,        \* how the latest call or pipeline to end has ended
    sends,          \* builders created so far
    injected,       \* the flag as each pipeline read it before its backend call
    calls,          \* how often each pipeline has called the backend
    lazy,           \* "owned": a client of the caller's; else the state of DEFAULT_CLIENT
    fresh,          \* the cookie of the latest Client::cookie call no send has followed yet
    merged,         \* the Set-Cookie header of the latest completed merge, if it had just one
    snap            \* the jar as the latest completed write (a merge, a cookie call) left it

vars == <<cookies, poisoned, readers, writer, cookie_store, alive, pc, request,
          result, idx, outcome, sends, injected, calls, lazy, fresh, merged, snap>>

lock == <<readers, writer, poisoned>>
ghost == <<fresh, merged, snap>>
local == <<injected, calls>>

NoOutcome == [pipe |-> 0, kind |-> "none", err |-> ""]
Ended(p, kind, err) == [pipe |-> p, kind |-> kind, err |-> err]

\* Client::default(), and no builder yet; the client is either one the caller
\* owns or the static DEFAULT_CLIENT, which no one has touched yet
Init ==
    /\ cookies = {}
    /\ poisoned = FALSE
    /\ readers = {}
    /\ writer = 0
    /\ cookie_store = FALSE
    /\ alive = TRUE
    /\ pc = [p \in Pipes |-> "idle"]
    /\ request = [p \in Pipes |-> <<>>]
    /\ result = [p \in Pipes |-> NoResult]
    /\ idx = [p \in Pipes |-> 0]
    /\ outcome = NoOutcome
    /\ sends = 0
    /\ injected = [p \in Pipes |-> FALSE]
    /\ calls = [p \in Pipes |-> 0]
    /\ lazy \in {"owned", "uninit"}
    /\ fresh = <<>>
    /\ merged = <<>>
    /\ snap = {}

\* receivers that need the client unborrowed, whoever may reach it
Exclusive_any_client == \A p \in Pipes : pc[p] = "idle"

\* receivers callable through a shared reference too
Exclusive_shared == lazy = "owned"

\* `&mut self` and `self` need the client unborrowed: no builder or pipeline
\* lives; a static Lazy<Client> gives out shared references only
Exclusive == lazy = "owned" /\ \A p \in Pipes : pc[p] = "idle"

\* RwLock::read is granted whoever else reads
can_read_dirty == TRUE
\* RwLock::read (line 133) is granted while no writer holds the lock
can_read == writer = 0

\* RwLock::write is granted whoever holds the lock
can_write_unguarded == TRUE
\* RwLock::write (line 145) is granted while no one holds the lock
can_write == writer = 0 /\ readers = {}

\* a read guard still alive across the await
drop_read_guard_late(rs, p) == rs
\* line 140: the read guard goes out of scope with the `if` block
drop_read_guard(rs, p) == rs \ {p}

\* a pipeline that could also be left in the middle of its merge
Suspended_in_merge == {"builder", "pending", "awaiting", "writing"}
\* where a builder or pipeline rests between polls: the await of line 142 is
\* the only one of the async block
Suspended == {"builder", "pending", "awaiting"}

\* a pipeline that injects cookies whatever the flag
store_on_send_always == TRUE

\* a pipeline that goes to the backend without looking at the jar
store_on_send_never == FALSE

\* line 132: the flag as read before the backend call
store_on_send == cookie_store

\* a merge that runs on any result of the backend
merges_cookies_any(r) == cookie_store

\* lines 143-144: the flag as read after the call, and Result::map on Ok only
merges_cookies(r) == cookie_store /\ r.ok

\* a pipeline ends: its slot is free again, and what it returned is recorded
End(p, kind, err) ==
    /\ pc' = [pc EXCEPT ![p] = "idle"]
    /\ request' = [request EXCEPT ![p] = <<>>]
    /\ result' = [result EXCEPT ![p] = NoResult]
    /\ idx' = [idx EXCEPT ![p] = 0]
    /\ injected' = [injected EXCEPT ![p] = FALSE]
    /\ calls' = [calls EXCEPT ![p] = 0]
    /\ outcome' = Ended(p, kind, err)

(* ------------------------------ client --------------------------------- *)
enable_cookie_store ==
    /\ alive /\ Exclusive
    /\ cookie_store' = TRUE
    /\ UNCHANGED <<cookies, lock, alive, pc, request, result, idx, outcome, sends, local,
                   lazy, ghost>>

disable_cookie_store ==
    /\ alive /\ Exclusive
    /\ cookie_store' = FALSE
    /\ UNCHANGED <<cookies, lock, alive, pc, request, result, idx, outcome, sends, local,
                   lazy, ghost>>

\* Client::cookie -> set_cookie: write().unwrap().add_original(cookie).
\* On a poisoned lock the unwrap panics and the client, moved in, is dropped.
cookie(c) ==
    /\ alive /\ Exclusive
    /\ IF poisoned
       THEN /\ alive' = FALSE
            /\ outcome' = Ended(0, "panic", "PoisonError")
            /\ UNCHANGED <<cookies, ghost>>
       ELSE /\ cookies' = add_original(cookies, c)
            /\ fresh' = <<c>>
            /\ merged' = <<>>
            /\ snap' = cookies'
            /\ UNCHANGED <<alive, outcome>>
    /\ UNCHANGED <<lock, cookie_store, pc, request, result, idx, sends, local, lazy>>

\* Client::method (and get/post/put/delete): uri.try_into().unwrap(); the
\* free-standing functions go through DEFAULT_CLIENT, whose first use builds it
method(p, uri) ==
    /\ alive /\ pc[p] = "idle" /\ sends < MaxSends
    /\ sends' = sends + 1
    /\ lazy' = IF lazy = "uninit" THEN "init" ELSE lazy
    /\ IF try_into(uri)
       THEN /\ pc' = [pc EXCEPT ![p] = "builder"]
            /\ UNCHANGED outcome
       ELSE /\ outcome' = Ended(p, "panic", "InvalidUri")
            /\ pc' = pc
    /\ UNCHANGED <<cookies, lock, cookie_store, alive, request, result, idx, local, ghost>>

(* ------------------------------ builder -------------------------------- *)
\* DerefMut: the caller writes the request's headers
deref_mut(p, h) ==
    /\ pc[p] = "builder"
    /\ request[p] # h
    /\ request' = [request EXCEPT ![p] = h]
    /\ UNCHANGED <<cookies, lock, cookie_store, alive, pc, result, idx, outcome, sends,
                   local, lazy, ghost>>

\* a resolution that starts the backend call at once
into_future_eager(p) ==
    /\ pc[p] = "builder"
    /\ pc' = [pc EXCEPT ![p] = "awaiting"]
    /\ calls' = [calls EXCEPT ![p] = calls[p] + 1]
    /\ UNCHANGED <<cookies, lock, cookie_store, alive, request, result, idx, outcome, sends,
                   injected, lazy, ghost>>

\* IntoFuture::into_future: boxes the async block, runs nothing
into_future(p) ==
    /\ pc[p] = "builder"
    /\ pc' = [pc EXCEPT ![p] = "pending"]
    /\ UNCHANGED <<cookies, lock, cookie_store, alive, request, result, idx, outcome, sends,
                   local, lazy, ghost>>

\* the builder, or the future while it is not being polled, is dropped
drop(p) ==
    /\ pc[p] \in Suspended
    /\ End(p, "dropped", pc[p])
    /\ UNCHANGED <<cookies, lock, cookie_store, alive, sends, lazy, ghost>>

(* ------------------------------ pipeline ------------------------------- *)
\* first poll, cookie store off (line 132 false): straight to call_endpoint
call_plain(p) ==
    /\ pc[p] = "pending"
    /\ ~store_on_send
    /\ pc' = [pc EXCEPT ![p] = "awaiting"]
    /\ calls' = [calls EXCEPT ![p] = calls[p] + 1]
    /\ fresh' = <<>>
    /\ UNCHANGED <<cookies, lock, cookie_store, alive, request, result, idx, outcome,
                   sends, injected, lazy, merged, snap>>

\* line 133: cookies.read().unwrap(); blocks while a writer holds the lock,
\* panics on a poisoned lock
read_lock(p) ==
    /\ pc[p] = "pending"
    /\ store_on_send
    /\ can_read
    /\ IF poisoned
       THEN /\ End(p, "panic", "PoisonError")
            /\ fresh' = <<>>
            /\ UNCHANGED readers
       ELSE /\ pc' = [pc EXCEPT ![p] = "reading"]
            /\ readers' = readers \cup {p}
            /\ injected' = [injected EXCEPT ![p] = TRUE]
            /\ UNCHANGED <<request, result, idx, outcome, calls, fresh>>
    /\ UNCHANGED <<cookies, writer, poisoned, cookie_store, alive, sends, lazy, merged, snap>>

\* lines 134-142: walk the jar, join, convert, insert the header; the guard
\* is dropped at the end of the block (or by the unwinding), then the backend
\* is called
inject_cookies(p, o) ==
    /\ pc[p] = "reading"
    /\ o \in Orders(cookies)
    /\ fresh' = <<>>
    /\ IF try_from(CookieHeader(o))
       THEN /\ request' = [request EXCEPT ![p] = insert_header(request[p], CookieHeader(o))]
            /\ readers' = drop_read_guard(readers, p)
            /\ pc' = [pc EXCEPT ![p] = "awaiting"]
            /\ calls' = [calls EXCEPT ![p] = calls[p] + 1]
            /\ UNCHANGED <<result, idx, outcome, injected>>
       ELSE /\ End(p, "panic", "InvalidHeaderValue")
            /\ readers' = readers \ {p}
    /\ UNCHANGED <<cookies, writer, poisoned, cookie_store, alive, sends, lazy, merged, snap>>

\* line 142: the backend's future resolves; the request was lent to it
\* mutably and is not read again
call_endpoint(p, r) ==
    /\ pc[p] = "awaiting"
    /\ r \in BackendResults
    /\ pc' = [pc EXCEPT ![p] = "returned"]
    /\ result' = [result EXCEPT ![p] = r]
    /\ request' = [request EXCEPT ![p] = <<>>]
    /\ UNCHANGED <<cookies, lock, cookie_store, alive, idx, outcome, sends, local, lazy, ghost>>

\* lines 143, 154: nothing to merge, the backend's result is the pipeline's
pass_result(p) ==
    /\ pc[p] = "returned"
    /\ ~merges_cookies(result[p])
    /\ IF result[p].ok THEN End(p, "ok", "") ELSE End(p, "err", result[p].err)
    /\ UNCHANGED <<cookies, lock, cookie_store, alive, sends, lazy, ghost>>

\* line 145: cookies.write().unwrap(); blocks while anyone holds the lock
write_lock(p) ==
    /\ pc[p] = "returned"
    /\ merges_cookies(result[p])
    /\ can_write
    /\ IF poisoned
       THEN /\ End(p, "panic", "PoisonError")
            /\ UNCHANGED writer
       ELSE /\ pc' = [pc EXCEPT ![p] = "writing"]
            /\ idx' = [idx EXCEPT ![p] = 1]
            /\ writer' = p
            /\ UNCHANGED <<request, result, outcome, local>>
    /\ UNCHANGED <<cookies, readers, poisoned, cookie_store, alive, sends, lazy, ghost>>

\* lines 147-150, one turn of the loop; an unwrap that fails panics with the
\* write guard alive, which poisons the lock as the guard is dropped
merge_one(p) ==
    /\ pc[p] = "writing"
    /\ idx[p] <= Len(result[p].set_cookie)
    /\ LET h == result[p].set_cookie[idx[p]]
       IN  IF ~from_utf8(h)
           THEN /\ End(p, "panic", "FromUtf8Error")
                /\ poisoned' = TRUE /\ writer' = 0
                /\ UNCHANGED cookies
           ELSE IF ~parse(h).ok
           THEN /\ End(p, "panic", parse(h).err)
                /\ poisoned' = TRUE /\ writer' = 0
                /\ UNCHANGED cookies
           ELSE /\ cookies' = add_original(cookies, parse(h).cookie)
                /\ idx' = [idx EXCEPT ![p] = idx[p] + 1]
                /\ UNCHANGED <<pc, request, result, outcome, poisoned, writer, local>>
    /\ merged' = IF pc'[p] = "idle" THEN <<>> ELSE merged
    /\ UNCHANGED <<readers, cookie_store, alive, sends, lazy, fresh, snap>>

\* lines 151-154: the closure returns the response, the guard is dropped
write_unlock(p) ==
    /\ pc[p] = "writing"
    /\ idx[p] > Len(result[p].set_cookie)
    /\ writer' = 0
    /\ merged' = IF Len(result[p].set_cookie) = 1 THEN result[p].set_cookie ELSE <<>>
    /\ snap' = cookies
    /\ End(p, "ok", "")
    /\ UNCHANGED <<cookies, readers, poisoned, cookie_store, alive, sends, lazy, fresh>>

Next ==
    \/ enable_cookie_store
    \/ disable_cookie_store
    \/ \E c \in CallerCookies : cookie(c)
    \/ \E p \in Pipes, uri \in Uris : method(p, uri)
    \/ \E p \in Pipes, h \in CallerHeaders : deref_mut(p, h)
    \/ \E p \in Pipes : into_future(p)
    \/ \E p \in Pipes : drop(p)
    \/ \E p \in Pipes : call_plain(p)
    \/ \E p \in Pipes : read_lock(p)
    \/ \E p \in Pipes, o \in Orders(cookies) : inject_cookies(p, o)
    \/ \E p \in Pipes, r \in BackendResults : call_endpoint(p, r)
    \/ \E p \in Pipes : pass_result(p)
    \/ \E p \in Pipes : write_lock(p)
    \/ \E p \in Pipes : merge_one(p)
    \/ \E p \in Pipes : write_unlock(p)

Spec == Init /\ [][Next]_vars

TypeOK ==
    /\ \A c \in cookies : c.name # <<>>
    /\ poisoned \in BOOLEAN /\ cookie_store \in BOOLEAN /\ alive \in BOOLEAN
    /\ readers \subseteq Pipes
    /\ writer \in {0} \cup Pipes
    /\ pc \in [Pipes -> {"idle", "builder", "pending", "reading", "awaiting",
                         "returned", "writing"}]
    /\ sends \in 0..MaxSends
    /\ injected \in [Pipes -> BOOLEAN]
    /\ calls \in [Pipes -> 0..1]
    /\ lazy \in {"owned", "uninit", "init"}

(* ------------------------------ claims --------------------------------- *)
\* a occurs in b as a run of consecutive characters
IsInfix(a, b) == \E i \in 1..(Len(b) - Len(a) + 1) : SubSeq(b, i, i + Len(a) - 1) = a

\* the `name=value` pairs of one walk of the jar, joined with `;`
PairsHeader(o) == Join([i \in 1..Len(o) |-> NameValue(o[i])], <<";">>)

\* pipeline p hands its request to the backend after building the Cookie header
Injects(p) == pc[p] = "reading" /\ pc'[p] = "awaiting"

\* pipeline p inserts the cookie of the Set-Cookie header its loop stands at
Inserts(p) == pc[p] = "writing" /\ pc'[p] = "writing" /\ idx'[p] = idx[p] + 1
Inserted(p) == parse(result[p].set_cookie[idx[p]]).cookie

\* pipeline p completes its merge and returns the response
Merged(p) == pc[p] = "writing" /\ pc'[p] = "idle" /\ outcome'.kind = "ok"

\* C1: with the cookie store enabled, the request handed to the backend
\* carries exactly one Cookie header value, the `name=value` pairs of exactly
\* the cookies of the jar as read under the read lock, joined with `;`,
\* whatever Cookie header values the caller had put on the request.
C1_CookieHeaderIsThePairsOfTheJar ==
    [][\A p \in Pipes :
        Injects(p) => \E o \in Orders(cookies) : request'[p] = <<PairsHeader(o)>>]_vars

\* C2: when a merge completes, the jar holds every delivered cookie (the
\* last one delivered under each identity), and no insertion removes a
\* cookie stored under another identity.
C2_JarKeepsDeliveredAndOtherIdentities ==
    [][\A p \in Pipes :
        /\ Merged(p) =>
             LET hs == result[p].set_cookie
             IN  \A i \in 1..Len(hs) :
                   (\A j \in (i + 1)..Len(hs) :
                        Identity(parse(hs[j]).cookie) # Identity(parse(hs[i]).cookie))
                   => parse(hs[i]).cookie \in cookies'
        /\ Inserts(p) =>
             \A d \in cookies : Identity(d) # Identity(Inserted(p)) => d \in cookies'
      ]_vars

\* C3: with the cookie store disabled, no step of a builder or pipeline
\* touches the jar or its lock, none reads or merges cookies, and the request
\* reaches the backend with the Cookie header values the caller left on it.
C3_DisabledStoreLeavesRequestAndJarAlone ==
    [][(~cookie_store /\ pc' # pc) =>
        /\ cookies' = cookies /\ lock' = lock /\ idx' = idx
        /\ \A p \in Pipes :
             /\ pc'[p] \notin {"reading", "writing"}
             /\ (pc[p] = "pending" /\ pc'[p] = "awaiting") => request'[p] = request[p]
      ]_vars

C3_Witness ==
    /\ ~cookie_store /\ cookies # {}
    /\ \E p \in Pipes : pc[p] = "returned" /\ result[p].ok /\ result[p].set_cookie # <<>>

\* C4 (as stated): the first request handed to the backend after a
\* Client::cookie call carries that cookie's pair in a Cookie header value.
C4_NextSendCarriesAddedCookie ==
    [][\A p \in Pipes :
        (fresh # <<>> /\ pc[p] \in {"pending", "reading"} /\ pc'[p] = "awaiting")
        => \E i \in 1..Len(request'[p]) : IsInfix(NameValue(fresh[1]), request'[p][i])
      ]_vars

\* C4 (amended): with the cookie store enabled, the first request handed to
\* the backend after a Client::cookie call carries that cookie's pair in its
\* Cookie header value.
C4_NextSendCarriesAddedCookieWhenEnabled ==
    [][\A p \in Pipes :
        (cookie_store /\ fresh # <<>> /\ pc[p] \in {"pending", "reading"}
            /\ pc'[p] = "awaiting")
        => \E i \in 1..Len(request'[p]) : IsInfix(NameValue(fresh[1]), request'[p][i])
      ]_vars

C4_Witness ==
    /\ sends = 1 /\ cookie_store
    /\ \E p \in Pipes :
         /\ pc[p] = "awaiting" /\ request[p] # <<>>
         /\ IsInfix(NameValue(K_sid), request[p][1])

\* C5: when the jar is empty as the header is built, the request handed to
\* the backend has no Cookie header.
C5_EmptyJarSendsNoCookieHeader ==
    [][\A p \in Pipes : (Injects(p) /\ cookies = {}) => request'[p] = <<>>]_vars

\* C6: a merge of the very Set-Cookie header the previous merge delivered
\* leaves the jar as that merge left it, with one entry per identity.
C6_MergeIsIdempotent ==
    [][\A p \in Pipes :
        (Merged(p) /\ merged # <<>> /\ result[p].set_cookie = merged)
        => /\ cookies' = snap
           /\ \A c, d \in cookies' : Identity(c) = Identity(d) => c = d
      ]_vars

C6_Witness ==
    \E p \in Pipes :
        /\ pc[p] = "writing" /\ idx[p] > Len(result[p].set_cookie)
        /\ merged # <<>> /\ result[p].set_cookie = merged

\* C7: after an insertion (a Set-Cookie header merged, or Client::cookie) the
\* jar holds exactly one entry under the inserted cookie's identity, and it is
\* the cookie just inserted.
OnlyEntry(c, jar) == {d \in jar : Identity(d) = Identity(c)} = {c}
C7_InsertionReplacesOnIdentity ==
    [][/\ \A p \in Pipes : Inserts(p) => OnlyEntry(Inserted(p), cookies')
       /\ (fresh' # fresh /\ fresh' # <<>>) => OnlyEntry(fresh'[1], cookies')
      ]_vars

C7_Witness ==
    \E p \in Pipes :
        /\ pc[p] = "writing" /\ result[p].set_cookie = <<H_id1, H_id2>> /\ idx[p] = 3
        /\ cookies = {MkCookie(<<"i", "d">>, <<"2">>, <<>>)}

\* C8: a pipeline whose backend call failed ends with that very error, and
\* neither takes the write lock nor changes the jar, cookie store on or off.
C8_BackendErrorPassesThrough ==
    [][\A p \in Pipes :
        /\ pc[p] = "writing" => result[p].ok
        /\ (pc[p] = "returned" /\ ~result[p].ok /\ pc'[p] # pc[p])
           => /\ pc'[p] = "idle"
              /\ outcome' = Ended(p, "err", result[p].err)
              /\ cookies' = cookies /\ lock' = lock
      ]_vars

C8_Witness == cookie_store /\ cookies # {} /\ outcome.kind = "err" /\ outcome.err = "E2"

\* C9: a URI that fails to convert makes `method` return an InvalidUri error
\* outcome, with no builder, no jar access and no abort of the caller.
C9_BadUriReturnsInvalidUri ==
    [][\A p \in Pipes, uri \in Uris :
        (method(p, uri) /\ ~try_into(uri))
        => /\ outcome' = Ended(p, "err", "InvalidUri")
           /\ pc'[p] = "idle" /\ cookies' = cookies /\ lock' = lock
      ]_vars

\* C10: a Set-Cookie header that is no text or fails the cookie grammar makes
\* the send return a CookieParseError value, the jar unchanged from there on.
C10_BadSetCookieReturnsParseError ==
    [][\A p \in Pipes :
        (pc[p] = "writing" /\ idx[p] <= Len(result[p].set_cookie) /\ pc'[p] # pc[p])
        => /\ outcome' = Ended(p, "err", "CookieParseError")
           /\ cookies' = cookies
      ]_vars

\* pipeline p takes a step of its own
Steps(p) == pc'[p] # pc[p] \/ request'[p] # request[p] \/ idx'[p] # idx[p]

\* the stages in which a pipeline has started running and not yet ended
Running == {"reading", "awaiting", "returned", "writing"}

\* C11: at most one pipeline holds the write lock, never while any pipeline
\* holds the read lock; and a pipeline about to read is granted the read lock
\* whenever no writer holds it, however many readers there are.
C11_ReaderWriterExclusion ==
    /\ Cardinality({p \in Pipes : pc[p] = "writing"}) <= 1
    /\ \A p \in Pipes : pc[p] = "writing" => writer = p /\ readers = {}
    /\ \A p \in Pipes : pc[p] = "reading" => p \in readers /\ writer = 0
    /\ \A p \in Pipes :
         (pc[p] = "pending" /\ cookie_store /\ writer = 0) => ENABLED read_lock(p)

C11_Witness == Cardinality(readers) >= 2

\* C12: a pipeline holds a jar lock only while it reads or merges; one that
\* waits for the backend (or has not started, or has ended) holds none.
C12_NoLockAcrossBackendCall ==
    \A p \in Pipes :
        /\ p \in readers => pc[p] = "reading"
        /\ writer = p => pc[p] = "writing"
        /\ pc[p] = "awaiting" => p \notin readers /\ writer # p

C12_Witness ==
    \E p, q \in Pipes : pc[p] = "awaiting" /\ injected[p] /\ pc[q] = "writing"

\* C13: with the cookie store enabled a pipeline reaches the backend call
\* only from its jar read, with the read guard gone; its backend call
\* returns only after it was made; its jar write starts only after the call
\* has returned.
C13_ReadThenCallThenWrite ==
    [][\A p \in Pipes :
        /\ (pc'[p] = "reading" /\ pc[p] # "reading") => pc[p] = "pending" /\ calls[p] = 0
        /\ (pc'[p] = "awaiting" /\ pc[p] # "awaiting" /\ cookie_store)
           => pc[p] = "reading" /\ p \notin readers' /\ calls[p] = 0
        /\ (pc'[p] = "returned" /\ pc[p] # "returned") => pc[p] = "awaiting" /\ calls[p] = 1
        /\ (pc'[p] = "writing" /\ pc[p] # "writing")
           => pc[p] = "returned" /\ injected[p] /\ calls[p] = 1 /\ result[p].ok
      ]_vars

C13_Witness ==
    \E p, q \in Pipes : pc[p] = "returned" /\ result[p].ok /\ injected[p] /\ pc[q] = "reading"

\* C14: dropping a builder or pipeline changes neither jar nor lock, and the
\* dropped pipeline holds no lock and has merged nothing.
C14_AbandonmentLeavesJarAndLock ==
    [][\A p \in Pipes :
        (pc'[p] = "idle" /\ outcome' = Ended(p, "dropped", pc[p]))
        => /\ cookies' = cookies /\ lock' = lock
           /\ p \notin readers' /\ writer' # p
           /\ idx[p] = 0
      ]_vars

C14_Witness ==
    /\ outcome.kind = "dropped" /\ outcome.err = "awaiting"
    /\ cookie_store /\ cookies # {}

\* C15: the flag changes only while no builder or pipeline of the client
\* lives, so a running pipeline's first read of the flag equals the flag, and
\* on a successful response it goes on to merge exactly if it injected.
C15_FlagStableDuringPipeline ==
    [][/\ cookie_store' # cookie_store => \A p \in Pipes : pc[p] = "idle"
       /\ \A p \in Pipes :
            /\ pc[p] \in Running => injected[p] = cookie_store
            /\ (pc[p] = "returned" /\ pc'[p] # "returned" /\ result[p].ok)
               => ((pc'[p] = "writing" \/ outcome'.err = "PoisonError") <=> injected[p])
      ]_vars

C15_Witness ==
    /\ cookie_store
    /\ \E p \in Pipes : pc[p] = "returned" /\ result[p].ok /\ injected[p]
    /\ \E q \in Pipes : pc[q] = "builder"

\* C16: creating a builder, writing its request and resolving it touch
\* neither jar, lock nor backend; the jar is read and the backend called only
\* by a driven pipeline; a pipeline calls the backend at most once, and once
\* when it returns a response or an error.
C16_LazyOneShot ==
    [][\A p \in Pipes :
        /\ (Steps(p) /\ pc[p] \in {"idle", "builder"} /\ pc'[p] \in {"builder", "pending"})
           => /\ cookies' = cookies /\ lock' = lock
              /\ calls'[p] = 0 /\ result'[p] = NoResult
        /\ calls'[p] > calls[p] => pc[p] \in {"pending", "reading"} /\ calls[p] = 0
        /\ (p \in readers' /\ p \notin readers) => pc[p] = "pending"
        /\ (pc'[p] = "idle" /\ outcome' # outcome /\ outcome'.pipe = p
                /\ outcome'.kind \in {"ok", "err"})
           => calls[p] = 1
      ]_vars

C16_Witness ==
    /\ cookie_store /\ cookies # {} /\ readers = {} /\ writer = 0
    /\ \E p \in Pipes : pc[p] = "pending" /\ calls[p] = 0 /\ request[p] # <<>>

\* C17: a pipeline that has ended holds no jar lock, and no later send or
\* `cookie` call fails to take the lock.
C17_LockUsableAfterEveryExit ==
    [][/\ \A p \in Pipes : pc'[p] = "idle" => p \notin readers' /\ writer' # p
       /\ outcome'.err # "PoisonError"
      ]_vars

\* C18: a pipeline that waits for the backend keeps no other from the jar,
\* some pipeline can always move unless all wait or rest, and a pipeline whose
\* backend call has returned ends with a response or an error.
C18_ProgressToResponseOrError ==
    [][/\ \A q \in Pipes :
            (pc[q] = "returned" /\ merges_cookies(result[q])
                /\ \A p \in Pipes \ {q} : pc[p] \in Suspended \cup {"idle"})
            => ENABLED write_lock(q)
       /\ (\E p \in Pipes : pc[p] \in {"reading", "returned", "writing"})
          => \E p \in Pipes :
                \/ ENABLED pass_result(p) \/ ENABLED write_lock(p)
                \/ ENABLED merge_one(p) \/ ENABLED write_unlock(p)
                \/ \E o \in Orders(cookies) : ENABLED inject_cookies(p, o)
       /\ \A p \in Pipes :
            (pc[p] \in {"returned", "writing"} /\ pc'[p] = "idle")
            => outcome'.kind \in {"ok", "err"}
      ]_vars

\* C19: a merge holds the write lock from its first insertion to its last,
\* and a pipeline that builds its header sees the jar as a completed write
\* left it.
C19_MergeIsAtomic ==
    [][\A p \in Pipes :
        /\ pc[p] = "writing" => writer = p /\ readers = {}
        /\ (pc[p] = "reading" /\ pc'[p] # "reading") => cookies = snap
      ]_vars

C19_Witness ==
    \E p, q \in Pipes :
        /\ pc[p] = "writing" /\ Len(result[p].set_cookie) = 2 /\ idx[p] = 2
        /\ pc[q] = "pending" /\ cookie_store

\* C20: the default client is built once, on first use, with an empty jar and
\* the cookie store off, and stays so: its requests reach the backend as the
\* caller left them, and no pipeline of it reads or writes the jar.
C20_DefaultClientNeverStoresCookies ==
    [][/\ lazy' # lazy => lazy = "uninit" /\ lazy' = "init"
       /\ lazy = "uninit" => sends = 0 /\ \A p \in Pipes : pc[p] = "idle"
       /\ lazy # "owned" =>
            /\ ~cookie_store /\ cookies = {} /\ readers = {} /\ writer = 0
            /\ \A p \in Pipes :
                 /\ ~injected[p]
                 /\ pc[p] = "awaiting" => request[p] \in CallerHeaders
      ]_vars

C20_Witness ==
    /\ lazy = "init" /\ sends = 2
    /\ \E p \in Pipes : pc[p] = "returned" /\ result[p].ok /\ result[p].set_cookie # <<>>

====
